---- MODULE Spec2Model ----
(***************************************************************************)
(* Model of mercury_finance_bot.py: the seen-transaction state file, the   *)
(* transaction formatter and the notification run                          *)
(* (load_state -> per account: fetch, filter, format, send -> save_state). *)
(***************************************************************************)
EXTENDS Integers, Sequences, FiniteSets, TLC

VARIABLES
    file,          \* content of STATE_FILE on disk
    pc,            \* pc[p]: where invocation p of notify_new_transactions stands
    seen_state,    \* seen_state[p]: the mapping returned by load_state, mutated in memory
    acct,          \* acct[p]: index in BASE_ACCOUNT_IDS of the account being processed
    txs,           \* txs[p]: the list fetch_transactions returned for that account
    new_txs,       \* new_txs[p]: the part of new_txs the inner loop has not reached yet
    runs,          \* number of invocations started so far
    loaded,        \* history: loaded[p] is the mapping load_state returned to p's run
    sentRun,       \* history: sentRun[p][a], ids delivered for a in p's current run
    sentCur,       \* history: sentCur[p], ids delivered for the current account, in order
    fetchFailed,   \* history: fetchFailed[p], accounts whose fetch failed in p's current run
    delivered,     \* history: delivered[a], ids the sink ever accepted for account a
    saved,         \* history: invocations in the order their first save_state completed
    ftx,           \* formatter harness: the transaction record under test
    fout,          \* formatter harness: what format_transaction_for_slack returned
    fpc,           \* formatter harness: "off", "input", "formatted", "sent", "aborted"
    posted         \* formatter harness: the payload the webhook accepted

vars == <<file, pc, seen_state, acct, txs, new_txs, runs, loaded, sentRun, sentCur,
          fetchFailed, delivered, saved, ftx, fout, fpc, posted>>

pipeVars == <<file, pc, seen_state, acct, txs, new_txs, runs, loaded, sentRun, sentCur,
              fetchFailed, delivered, saved>>

fmtVars == <<ftx, fout, fpc, posted>>

(***************************************************************************)
(* Bounds of the model.                                                    *)
(***************************************************************************)
\* number of distinct transactions the source holds for the first account
NumTx == 3
\* longest list one fetch returns (the code asks the source for limit 5)
MaxFetch == 3
\* number of invocations of notify_new_transactions in one behaviour
MaxRuns == 2
\* amounts of the formatter's inputs range over -MaxAmount..MaxAmount
MaxAmount == 2

(***************************************************************************)
(* Configuration.                                                          *)
(***************************************************************************)
\* the keys of BASE_ACCOUNT_IDS in dict (insertion) order
AcctOrder == <<"IN", "OUT", "SAVINGS">>

AccountNames == {AcctOrder[i] : i \in DOMAIN AcctOrder}

\* logical name -> opaque account identifier (from the environment)
BASE_ACCOUNT_IDS == [IN |-> "acct-in", OUT |-> "acct-out", SAVINGS |-> "acct-savings"]

Procs == {1, 2}

Range(s) == {s[i] : i \in DOMAIN s}

Reverse(s) == [i \in 1..Len(s) |-> s[Len(s) + 1 - i]]

\* a dict key that is not present
Absent == "<absent>"

\* dict.get(key, default) on a record whose missing keys hold Absent
Get(d, key, default) == IF d[key] = Absent THEN default ELSE d[key]

(***************************************************************************)
(* format_transaction_for_slack.                                           *)
(*                                                                         *)
(* A createdAt string is modelled by its lexical content: form "iso" is    *)
(* the text YYYY-MM-DDTHH:MM:00<zone> with the given (possibly out of      *)
(* range) numbers, form "junk" is the text in raw.                         *)
(***************************************************************************)
IsoString(y, mo, d, h, mi, zone) ==
    [form |-> "iso", y |-> y, mo |-> mo, d |-> d, h |-> h, mi |-> mi,
     zone |-> zone, raw |-> ""]

JunkString(raw) ==
    [form |-> "junk", y |-> 0, mo |-> 0, d |-> 0, h |-> 0, mi |-> 0,
     zone |-> "", raw |-> raw]

\* str.replace("Z", "+00:00") on the zone suffix
ReplaceZ(s) == IF s.form = "iso" /\ s.zone = "Z" THEN [s EXCEPT !.zone = "+00:00"] ELSE s

IsLeap(y) == (y % 4 = 0 /\ y % 100 # 0) \/ y % 400 = 0

DaysInMonth(y, mo) ==
    IF mo = 2 THEN (IF IsLeap(y) THEN 29 ELSE 28)
    ELSE IF mo \in {4, 6, 9, 11} THEN 30 ELSE 31

\* datetime.fromisoformat: ok is FALSE where it raises ValueError
fromisoformat(s) ==
    IF /\ s.form = "iso"
       /\ s.zone \in {"", "+00:00"}
       /\ s.y \in 1..9999
       /\ s.mo \in 1..12
       /\ s.d \in 1..DaysInMonth(s.y, s.mo)
       /\ s.h \in 0..23
       /\ s.mi \in 0..59
    THEN [ok |-> TRUE, y |-> s.y, mo |-> s.mo, d |-> s.d, h |-> s.h, mi |-> s.mi]
    ELSE [ok |-> FALSE, y |-> 0, mo |-> 0, d |-> 0, h |-> 0, mi |-> 0]

MonthName == <<"January", "February", "March", "April", "May", "June", "July",
               "August", "September", "October", "November", "December">>

\* dt.strftime("%-I:%M %p on %B %d, %Y")
strftime(dt) ==
    [hour12 |-> IF dt.h % 12 = 0 THEN 12 ELSE dt.h % 12,
     minute |-> dt.mi,
     ampm   |-> IF dt.h < 12 THEN "AM" ELSE "PM",
     month  |-> MonthName[dt.mo],
     day    |-> dt.d,
     year   |-> dt.y]

\* a handler that lets the failure out
DateFallback_Raises(date_str) == [raised |-> TRUE, rendered |-> FALSE, text |-> date_str]

\* what the except clause of lines 70-71 does with the failure: the handler
\* swallows it and the raw string is used
DateFallback(date_str) == [raised |-> FALSE, rendered |-> FALSE, text |-> date_str]

\* lines 66-71: rendered tells whether text is strftime's output or the raw string
FormatDate(date_str) ==
    LET dt == fromisoformat(ReplaceZ(date_str))
    IN  IF dt.ok
        THEN [raised |-> FALSE, rendered |-> TRUE, text |-> strftime(dt)]
        ELSE DateFallback(date_str)

Abs(n) == IF n < 0 THEN -n ELSE n

\* the test with the boundary on the other side
IsInbound_NonNegative(amount) == amount >= 0

\* line 75: the test that selects the inbound branch
IsInbound(amount) == amount > 0

\* lines 73-78; amounts are in cents, money is the absolute value as dollars and cents
Direction(amount) ==
    LET money == [dollars |-> Abs(amount) \div 100, cents |-> Abs(amount) % 100]
    IN  IF IsInbound(amount)
        THEN [emoji |-> "green-circle money-bag", money |-> money, phrase |-> "received from"]
        ELSE [emoji |-> "red-circle money-wings", money |-> money, phrase |-> "sent to"]

\* lines 80-86
KindEmoji(kind) ==
    CASE kind = "internalTransfer"      -> "repeat"
      [] kind = "outgoingPayment"       -> "outbox"
      [] kind = "incomingDomesticWire"  -> "bank"
      [] kind = "creditCardTransaction" -> "receipt"
      [] kind = "other"                 -> "puzzle"
      [] OTHER                          -> "question"

\* lines 88-93
StatusEmoji(status) ==
    CASE status = "pending"   -> "hourglass"
      [] status = "sent"      -> "check"
      [] status = "cancelled" -> "no-entry"
      [] status = "failed"    -> "cross"
      [] OTHER                -> "question"

\* line 96: the name shown in the direction line
CounterpartyShown(tx) == Get(tx, "counterpartyName", "Unknown")

\* the whole function: raised is TRUE where an exception leaves it
format_transaction_for_slack(tx) ==
    LET date == FormatDate(tx.createdAt)
        dir  == Direction(tx.amount)
        head == <<
            [line |-> "direction", emoji |-> dir.emoji, money |-> dir.money,
             phrase |-> dir.phrase, name |-> CounterpartyShown(tx)],
            [line |-> "category", kind_emoji |-> KindEmoji(tx.kind),
             kind |-> Get(tx, "kind", "unknown"),
             status_emoji |-> StatusEmoji(Get(tx, "status", "unknown")),
             status |-> Get(tx, "status", "")],
            [line |-> "timestamp", rendered |-> date.rendered, text |-> date.text] >>
        note == IF tx.note \notin {Absent, ""}
                THEN << [line |-> "note", text |-> tx.note] >> ELSE << >>
        link == IF tx.dashboardLink \notin {Absent, ""}
                THEN << [line |-> "link", url |-> tx.dashboardLink] >> ELSE << >>
    IN  IF date.raised
        THEN [raised |-> TRUE, parts |-> << >>]
        ELSE [raised |-> FALSE, parts |-> head \o note \o link]

(***************************************************************************)
(* The state file.  Its text is modelled as the entries written so far,    *)
(* one per account in dict order, and whether the text is a valid JSON     *)
(* document (a truncated file and a partly written one are not).           *)
(***************************************************************************)
NoFile == [exists |-> FALSE, entries |-> << >>, valid |-> FALSE]

\* open(STATE_FILE, "w"): the file exists and is empty
Truncated == [exists |-> TRUE, entries |-> << >>, valid |-> FALSE]

\* the elements of a set of ids as a list, smallest first
Ascending(S) ==
    LET l[n \in 0..Cardinality(S)] ==
            IF n = 0 THEN << >>
            ELSE Append(l[n - 1],
                        CHOOSE x \in S : Cardinality({y \in S : y < x}) = n - 1)
    IN  l[Cardinality(S)]

\* list(ids) lists a set in an order of its own; two of the orders are modelled
ListsOf(S) == {Ascending(S), Reverse(Ascending(S))}

\* line 55: every text json.dump can produce for state (list(ids) is in set order)
Serializations(state) ==
    LET keys == SelectSeq(AcctOrder, LAMBDA a : a \in DOMAIN state)
        docs[n \in 0..Len(keys)] ==
            IF n = 0 THEN {<< >>}
            ELSE {Append(d, [acct |-> keys[n], ids |-> l]) :
                      d \in docs[n - 1], l \in ListsOf(state[keys[n]])}
    IN  docs[Len(keys)]

\* number of ids in the text, which orders documents by length
DocLen(f) == LET n[i \in 0..Len(f.entries)] ==
                     IF i = 0 THEN 0 ELSE n[i - 1] + Len(f.entries[i].ids)
             IN  n[Len(f.entries)]

\* lines 36-48: ok is FALSE where json.load raises
load_state(f) ==
    IF ~f.exists
    THEN [ok |-> TRUE, state |-> [a \in AccountNames |-> {}]]
    ELSE IF ~f.valid
    THEN [ok |-> FALSE, state |-> [a \in AccountNames |-> {}]]
    ELSE [ok |-> TRUE,
          state |-> [a \in {f.entries[i].acct : i \in DOMAIN f.entries} |->
                        LET i == CHOOSE i \in DOMAIN f.entries : f.entries[i].acct = a
                        IN  Range(f.entries[i].ids)]]

\* lines 56-57: what the file holds once json.dump of doc has been written and
\* the handle closed.  The handle writes from offset 0 of a file it truncated at
\* open; bytes another writer put there since then stay beyond the new text.
Dumped(old, doc) ==
    IF DocLen(old) > DocLen([entries |-> doc])
    THEN [exists |-> TRUE, entries |-> doc, valid |-> FALSE]
    ELSE [exists |-> TRUE, entries |-> doc, valid |-> TRUE]

(***************************************************************************)
(* The transaction source.                                                 *)
(***************************************************************************)
\* the identifiers of the transactions the source holds for an account: NumTx
\* of them for the first account, one for each other account
Source(a) == IF a = AcctOrder[1] THEN 1..NumTx ELSE {1}

\* the record the source holds under identifier i
Tx(i) ==
    [id |-> i,
     amount |-> IF i % 2 = 1 THEN 1250 * i ELSE -(1250 * i),
     createdAt |-> IsoString(2024, 1, i, 12, 0, "Z"),
     counterpartyId |-> "cp-acme",
     counterpartyName |-> "Acme",
     kind |-> IF i % 2 = 1 THEN "incomingDomesticWire" ELSE "outgoingPayment",
     status |-> "sent",
     note |-> Absent,
     dashboardLink |-> Absent]

\* every list of at most MaxFetch records of account a
TxLists(a) == UNION {[1..n -> {Tx(i) : i \in Source(a)}] : n \in 0..MaxFetch}

\* an HTTP exchange with the source: a failure, or a success carrying a list
Responses(a) == {[ok |-> FALSE, transactions |-> << >>]}
                \cup {[ok |-> TRUE, transactions |-> l] : l \in TxLists(a)}

\* a fetch that lets the failure out
FetchError_Raises(resp) == [raised |-> TRUE, value |-> << >>]

\* lines 133-135: what fetch_transactions does with a failed exchange
FetchError(resp) == [raised |-> FALSE, value |-> << >>]

\* lines 121-135
fetch_transactions(resp) ==
    IF resp.ok THEN [raised |-> FALSE, value |-> resp.transactions]
    ELSE FetchError(resp)

\* the list walked as fetched
Walk_AsFetched(list) == list

\* line 151: the order in which the fetched list is walked
Walk(list) == Reverse(list)

\* line 151
NewTxs(list, seen_ids) == SelectSeq(Walk(list), LAMBDA tx : tx.id \notin seen_ids)

\* lines 112-118: raised is TRUE where the exception is re-raised
send_to_slack(text, accepted) == [raised |-> ~accepted]

Ids(list) == [i \in 1..Len(list) |-> list[i].id]

(***************************************************************************)
(* notify_new_transactions, one action per step of an invocation p.        *)
(***************************************************************************)
Terminal == {"done", "aborted", "savecrash", "loadfail"}

NoSeen == [a \in AccountNames |-> {}]

Init ==
    /\ file = NoFile
    /\ pc = [p \in Procs |-> "idle"]
    /\ seen_state = [p \in Procs |-> NoSeen]
    /\ acct = [p \in Procs |-> 1]
    /\ txs = [p \in Procs |-> << >>]
    /\ new_txs = [p \in Procs |-> << >>]
    /\ runs = 0
    /\ loaded = [p \in Procs |-> NoSeen]
    /\ sentRun = [p \in Procs |-> NoSeen]
    /\ sentCur = [p \in Procs |-> << >>]
    /\ fetchFailed = [p \in Procs |-> {}]
    /\ delivered = NoSeen
    /\ saved = << >>
    /\ ftx = Tx(1)
    /\ fout = [raised |-> FALSE, parts |-> << >>]
    /\ fpc = "off"
    /\ posted = << >>

\* the account the loop of line 145 is at
Cur(p) == AcctOrder[acct[p]]

\* what the end of the process leaves of its memory
Exit(p) ==
    /\ seen_state' = [seen_state EXCEPT ![p] = NoSeen]
    /\ acct' = [acct EXCEPT ![p] = 1]
    /\ txs' = [txs EXCEPT ![p] = << >>]
    /\ new_txs' = [new_txs EXCEPT ![p] = << >>]
    /\ sentCur' = [sentCur EXCEPT ![p] = << >>]

\* an exit path that saves what the run has recorded so far
Abort_Saving(p) ==
    /\ pc' = [pc EXCEPT ![p] = "aborted"]
    /\ Exit(p)
    /\ file' = Dumped(Truncated, CHOOSE doc \in Serializations(seen_state[p]) : TRUE)
    /\ UNCHANGED saved

\* an exception (or the death of the process) leaving notify_new_transactions
\* before line 165: save_state is not run
Abort(p) ==
    /\ pc' = [pc EXCEPT ![p] = "aborted"]
    /\ Exit(p)
    /\ UNCHANGED <<file, saved>>

\* the loop of line 145 moves to the next account, or ends and line 165 is next;
\* txs and new_txs are dead from here to the next fetch
Advance(p) ==
    /\ IF acct[p] = Len(AcctOrder)
       THEN /\ pc' = [pc EXCEPT ![p] = "save"]
            /\ acct' = [acct EXCEPT ![p] = Len(AcctOrder) + 1]
       ELSE /\ pc' = [pc EXCEPT ![p] = "fetch"]
            /\ acct' = [acct EXCEPT ![p] = acct[p] + 1]
    /\ txs' = [txs EXCEPT ![p] = << >>]
    /\ new_txs' = [new_txs EXCEPT ![p] = << >>]
    /\ sentCur' = [sentCur EXCEPT ![p] = << >>]

\* line 143, at the start of an invocation
LoadState(p) ==
    /\ pc[p] \in Terminal \cup {"idle"}
    /\ runs < MaxRuns
    /\ LET r == load_state(file)
       IN  /\ pc' = [pc EXCEPT ![p] = IF r.ok THEN "fetch" ELSE "loadfail"]
           /\ seen_state' = [seen_state EXCEPT ![p] = r.state]
    /\ acct' = [acct EXCEPT ![p] = 1]
    /\ txs' = [txs EXCEPT ![p] = << >>]
    /\ new_txs' = [new_txs EXCEPT ![p] = << >>]
    /\ runs' = runs + 1
    /\ loaded' = [loaded EXCEPT ![p] = load_state(file).state]
    /\ sentRun' = [sentRun EXCEPT ![p] = NoSeen]
    /\ sentCur' = [sentCur EXCEPT ![p] = << >>]
    /\ fetchFailed' = [fetchFailed EXCEPT ![p] = {}]
    /\ UNCHANGED <<file, delivered, saved, fmtVars>>

\* lines 147-155: fetch, filter, and `continue` when nothing is new; the
\* source answers with one of responses
FetchFrom(p, responses) ==
    /\ pc[p] = "fetch"
    /\ \E resp \in responses :
         LET r  == fetch_transactions(resp)
             nt == NewTxs(r.value, seen_state[p][Cur(p)])
         IN  /\ fetchFailed' = [fetchFailed EXCEPT ![p] =
                                   IF resp.ok THEN @ ELSE @ \cup {Cur(p)}]
             /\ IF r.raised
                THEN Abort(p)
                ELSE /\ UNCHANGED <<file, saved, seen_state>>
                     /\ IF nt = << >>
                        THEN Advance(p)
                        ELSE /\ pc' = [pc EXCEPT ![p] = "send"]
                             /\ txs' = [txs EXCEPT ![p] = r.value]
                             /\ new_txs' = [new_txs EXCEPT ![p] = nt]
                             /\ sentCur' = [sentCur EXCEPT ![p] = << >>]
                             /\ UNCHANGED acct
    /\ UNCHANGED <<runs, loaded, sentRun, delivered, fmtVars>>

Fetch(p) == FetchFrom(p, Responses(Cur(p)))

\* the identifier is not recorded
MarkSeen_Forgets(seen_ids, tx) == seen_ids

\* line 161
MarkSeen(seen_ids, tx) == seen_ids \cup {tx.id}

\* lines 157-161, one iteration in which the sink accepts the message
SendOk(p) ==
    /\ pc[p] = "send"
    /\ new_txs[p] # << >>
    /\ LET tx   == Head(new_txs[p])
           text == format_transaction_for_slack(tx)
       IN  IF text.raised \/ send_to_slack(text.parts, TRUE).raised
           THEN /\ Abort(p)
                /\ UNCHANGED <<sentRun, delivered>>
           ELSE /\ delivered' = [delivered EXCEPT ![Cur(p)] = @ \cup {tx.id}]
                /\ sentRun' = [sentRun EXCEPT ![p][Cur(p)] = @ \cup {tx.id}]
                /\ sentCur' = [sentCur EXCEPT ![p] = Append(@, tx.id)]
                /\ seen_state' = [seen_state EXCEPT ![p][Cur(p)] = MarkSeen(@, tx)]
                /\ new_txs' = [new_txs EXCEPT ![p] = Tail(@)]
                /\ UNCHANGED <<pc, file, saved, acct, txs>>
    /\ UNCHANGED <<runs, loaded, fetchFailed, fmtVars>>

\* lines 158-159 and 116-118: the sink refuses the message, send_to_slack
\* re-raises and the run ends
SendFail(p) ==
    /\ pc[p] = "send"
    /\ new_txs[p] # << >>
    /\ LET text == format_transaction_for_slack(Head(new_txs[p]))
       IN  text.raised \/ send_to_slack(text.parts, FALSE).raised
    /\ Abort(p)
    /\ UNCHANGED <<runs, loaded, sentRun, fetchFailed, delivered, fmtVars>>

\* line 163 and the step of the loop of line 145, once new_txs is exhausted
LoopNext(p) ==
    /\ pc[p] = "send"
    /\ new_txs[p] = << >>
    /\ Advance(p)
    /\ UNCHANGED <<file, seen_state, runs, loaded, sentRun,
                   fetchFailed, delivered, saved, fmtVars>>

\* the process dies between load_state and save_state
Crash(p) ==
    /\ pc[p] \in {"fetch", "send", "save"}
    /\ Abort(p)
    /\ UNCHANGED <<runs, loaded, sentRun, fetchFailed, delivered,
                   fmtVars>>

\* line 56: open(STATE_FILE, "w") truncates the file
SaveOpen(p) ==
    /\ pc[p] = "save"
    /\ file' = Truncated
    /\ pc' = [pc EXCEPT ![p] = "dump"]
    /\ UNCHANGED <<seen_state, acct, txs, new_txs, runs, loaded, sentRun, sentCur,
                   fetchFailed, delivered, saved, fmtVars>>

\* a save that keeps what a valid file on disk holds beside its own mapping
SaveDump_Merging(p) ==
    /\ pc[p] = "dump"
    /\ LET disk   == load_state(file).state
           merged == [a \in DOMAIN seen_state[p] |->
                         seen_state[p][a] \cup (IF file.valid /\ a \in DOMAIN disk THEN disk[a] ELSE {})]
       IN  \E doc \in Serializations(merged) : file' = Dumped(file, doc)
    /\ pc' = [pc EXCEPT ![p] = "done"]
    /\ saved' = IF p \in Range(saved) THEN saved ELSE Append(saved, p)
    /\ UNCHANGED <<seen_state, acct, txs, new_txs, runs, loaded, sentRun, sentCur,
                   fetchFailed, delivered, fmtVars>>

\* lines 55, 57: json.dump writes the whole mapping and the file is closed
SaveDump(p) ==
    /\ pc[p] = "dump"
    /\ \E doc \in Serializations(seen_state[p]) : file' = Dumped(file, doc)
    /\ pc' = [pc EXCEPT ![p] = "done"]
    /\ saved' = IF p \in Range(saved) THEN saved ELSE Append(saved, p)
    /\ UNCHANGED <<seen_state, acct, txs, new_txs, runs, loaded, sentRun, sentCur,
                   fetchFailed, delivered, fmtVars>>

\* the process dies inside save_state, after the open: nothing, or a proper
\* prefix of the text, has reached the file
CrashInSave(p) ==
    /\ pc[p] = "dump"
    /\ \E doc \in Serializations(seen_state[p]) : \E k \in 0..(Len(doc) - 1) :
         file' = IF k = 0 THEN file
                 ELSE [exists |-> TRUE, entries |-> SubSeq(doc, 1, k), valid |-> FALSE]
    /\ pc' = [pc EXCEPT ![p] = "savecrash"]
    /\ Exit(p)
    /\ UNCHANGED <<runs, loaded, sentRun, fetchFailed, delivered,
                   saved, fmtVars>>

(***************************************************************************)
(* The formatter on its own: a record is drawn, formatted (line 158) and   *)
(* handed to the sink (line 159).                                          *)
(***************************************************************************)
\* amounts in cents
Amounts == {125 * k : k \in (-MaxAmount)..MaxAmount}

\* createdAt strings: well-formed ones, ISO-shaped ones with a number out of
\* range or an unknown zone, and text that is no timestamp at all
DateStrings ==
    {IsoString(2024, mo, d, h, 5, z) : mo \in {2, 7, 13}, d \in {4, 30}, h \in {0, 13, 24},
                                       z \in {"Z", "+00:00", "PST"}}
    \cup {JunkString("yesterday"), JunkString("")}

CounterpartyIds == {BASE_ACCOUNT_IDS[a] : a \in AccountNames} \cup {"cp-acme", Absent}

FmtInputs ==
    [id : {1},
     amount : Amounts,
     createdAt : DateStrings,
     counterpartyId : CounterpartyIds,
     counterpartyName : {"Acme", Absent},
     kind : {"internalTransfer", "wire-drawdown", Absent},
     status : {"sent", Absent},
     note : {"rent", Absent},
     dashboardLink : {Absent}]

InitFmt ==
    /\ file = NoFile
    /\ pc = [p \in Procs |-> "idle"]
    /\ seen_state = [p \in Procs |-> NoSeen]
    /\ acct = [p \in Procs |-> 1]
    /\ txs = [p \in Procs |-> << >>]
    /\ new_txs = [p \in Procs |-> << >>]
    /\ runs = 0
    /\ loaded = [p \in Procs |-> NoSeen]
    /\ sentRun = [p \in Procs |-> NoSeen]
    /\ sentCur = [p \in Procs |-> << >>]
    /\ fetchFailed = [p \in Procs |-> {}]
    /\ delivered = NoSeen
    /\ saved = << >>
    /\ ftx \in FmtInputs
    /\ fout = [raised |-> FALSE, parts |-> << >>]
    /\ fpc = "input"
    /\ posted = << >>

\* line 158
FormatTx ==
    /\ fpc = "input"
    /\ fout' = format_transaction_for_slack(ftx)
    /\ fpc' = "formatted"
    /\ UNCHANGED <<ftx, posted, pipeVars>>

\* line 159, reached only if line 158 returned
PostFormatted ==
    /\ fpc = "formatted"
    /\ IF fout.raised
       THEN fpc' = "aborted" /\ UNCHANGED posted
       ELSE fpc' = "sent" /\ posted' = fout.parts
    /\ UNCHANGED <<ftx, fout, pipeVars>>

NextFmt == FormatTx \/ PostFormatted

SpecFmt == InitFmt /\ [][NextFmt]_vars

Step(p) ==
    \/ LoadState(p)
    \/ Fetch(p)
    \/ SendOk(p)
    \/ SendFail(p)
    \/ LoopNext(p)
    \/ Crash(p)
    \/ SaveOpen(p)
    \/ SaveDump(p)
    \/ CrashInSave(p)

\* one invocation at a time, as cron runs it
Next == Step(1)

Spec == Init /\ [][Next]_vars

\* the answers of a source that keeps to order=desc: a failure, or a list of
\* distinct records, newest first
TidyResponses(a) ==
    {r \in Responses(a) :
        \A i, j \in 1..Len(r.transactions) : i < j => r.transactions[i].id > r.transactions[j].id}

FetchTidy(p) == FetchFrom(p, TidyResponses(Cur(p)))

\* a second invocation is started while the first may still be running
Invoke(p) == pc[p] = "idle" /\ LoadState(p)

\* two invocations that may overlap, neither killed nor refused by the sink
NextRace ==
    \E p \in Procs :
        \/ Invoke(p)
        \/ FetchTidy(p)
        \/ SendOk(p)
        \/ LoopNext(p)
        \/ SaveOpen(p)
        \/ SaveDump(p)

SpecRace == Init /\ [][NextRace]_vars

(***************************************************************************)
(* Properties.                                                             *)
(***************************************************************************)
\* the mapping a valid state file holds
FileIds(f) == load_state(f).state

Running == {"fetch", "send", "save", "dump"}

\* the creation time of a record, in minutes into its year
TimeOf(tx) ==
    LET dt == fromisoformat(ReplaceZ(tx.createdAt))
    IN  ((dt.mo * 31 + dt.d) * 24 + dt.h) * 60 + dt.mi

NewestFirst(list) == \A i, j \in 1..Len(list) : i < j => TimeOf(list[i]) >= TimeOf(list[j])

OldestFirst(ids) == \A i, j \in 1..Len(ids) : i < j => TimeOf(Tx(ids[i])) <= TimeOf(Tx(ids[j]))

NoRepeat(ids) == \A i, j \in 1..Len(ids) : ids[i] = ids[j] => i = j

\* C1: every identifier a completed run delivered for an account is in the
\* state the immediately following run loads for that account, and a run
\* delivers no identifier of the state it loaded: the following run delivers
\* none of them, whatever the source returns.
C1_DedupIdempotent ==
    [][ /\ (pc[1] = "done" /\ pc'[1] # "done") =>
               (pc'[1] = "fetch" /\
                \A a \in AccountNames : sentRun[1][a] \subseteq loaded'[1][a])
        /\ \A a \in AccountNames : sentRun'[1][a] \cap loaded'[1][a] = {} ]_vars

\* a second run has met, for IN, a list holding an identifier the first run
\* persisted, has delivered the rest of the list, and has not delivered that one
C1_Witness ==
    /\ runs = 2
    /\ pc[1] = "send"
    /\ new_txs[1] = << >>
    /\ Cur(1) = "IN"
    /\ sentCur[1] # << >>
    /\ \E i \in DOMAIN txs[1] :
          txs[1][i].id \in loaded[1]["IN"] /\ txs[1][i].id \notin sentRun[1]["IN"]

\* C2: every identifier in a seen-set has been delivered for that account, and
\* no identifier is delivered while it is in the seen-set: none that the run
\* loaded, and none a second time in the run.
C2_SeenInvariant ==
    \A p \in Procs : \A a \in AccountNames :
        /\ seen_state[p][a] \subseteq delivered[a]
        /\ sentRun[p][a] \cap loaded[p][a] = {}
        /\ (pc[p] = "send" /\ Cur(p) = a) => NoRepeat(sentCur[p])

\* C3: what has been and what remains to be sent for the current account is
\* the fetched list in reverse with the identifiers seen at load left out,
\* and is oldest first when the fetched list is newest first.
C3_DeliveryOrder ==
    \A p \in Procs :
        pc[p] = "send" =>
            LET all == sentCur[p] \o Ids(new_txs[p])
            IN  /\ all = Ids(SelectSeq(Reverse(txs[p]),
                                       LAMBDA tx : tx.id \notin loaded[p][Cur(p)]))
                /\ NewestFirst(txs[p]) => OldestFirst(all)

\* a newest-first list of distinct records, one of them seen, the others (at
\* least two) all delivered
C3_Witness ==
    /\ pc[1] = "send"
    /\ new_txs[1] = << >>
    /\ Len(sentCur[1]) >= 2
    /\ Len(txs[1]) > Len(sentCur[1])
    /\ NoRepeat(Ids(txs[1]))
    /\ NewestFirst(txs[1])
    /\ sentCur[1][1] < sentCur[1][2]

\* C4: no step of a run before save_state, and no abort, changes the state
\* file; when a run has aborted the file holds none of the identifiers it
\* delivered; and the run after an abort loads none of them.
C4_AbortKeepsFile ==
    [][ /\ (pc[1] \in {"fetch", "send"} \/ pc'[1] = "aborted") => file' = file
        /\ (pc'[1] = "aborted" /\ file'.valid) =>
               \A a \in AccountNames : sentRun'[1][a] \cap FileIds(file')[a] = {}
        /\ (pc[1] = "aborted" /\ pc'[1] = "fetch") =>
               \A a \in AccountNames : sentRun[1][a] \cap loaded'[1][a] = {} ]_vars

\* the run after an aborted one is about to send an identifier that was
\* delivered before this run and is not in the state it loaded
C4_Witness ==
    /\ runs = 2
    /\ pc[1] = "send"
    /\ new_txs[1] # << >>
    /\ Head(new_txs[1]).id \in delivered[Cur(1)]
    /\ Head(new_txs[1]).id \notin sentRun[1][Cur(1)]
    /\ Head(new_txs[1]).id \notin loaded[1][Cur(1)]

\* C5: after a crash inside save_state the file is a complete document holding
\* the state of before the run or of after it, and load_state never fails.
C5_AtomicSave ==
    \A p \in Procs :
        /\ pc[p] # "loadfail"
        /\ pc[p] = "savecrash" =>
               /\ file.exists => file.valid
               /\ FileIds(file) \in {loaded[p],
                                     [a \in AccountNames |-> loaded[p][a] \cup sentRun[p][a]]}

\* C6: the direction line names the configured account whose identifier is the
\* record's counterparty identifier, else the counterparty name, else "Unknown".
C6_CounterpartyResolved ==
    fpc \in {"formatted", "sent"} =>
        /\ ~fout.raised
        /\ fout.parts[1].name =
              IF \E a \in AccountNames : BASE_ACCOUNT_IDS[a] = ftx.counterpartyId
              THEN CHOOSE a \in AccountNames : BASE_ACCOUNT_IDS[a] = ftx.counterpartyId
              ELSE IF ftx.counterpartyName # Absent THEN ftx.counterpartyName
              ELSE "Unknown"

Received(line) == line.phrase = "received from" /\ line.emoji = "green-circle money-bag"

Sent(line) == line.phrase = "sent to" /\ line.emoji = "red-circle money-wings"

ShowsAbsolute(line, amount) ==
    line.money.dollars * 100 + line.money.cents = (IF amount < 0 THEN 0 - amount ELSE amount)

\* C7 as claimed: "received" exactly when amount > 0, "sent" exactly when
\* amount < 0, and the amount shown is the absolute value.
C7_DirectionBySign ==
    fpc \in {"formatted", "sent"} =>
        /\ ~fout.raised
        /\ Received(fout.parts[1]) <=> ftx.amount > 0
        /\ Sent(fout.parts[1]) <=> ftx.amount < 0
        /\ ShowsAbsolute(fout.parts[1], ftx.amount)

\* C7 as amended: "received" exactly when amount > 0, "sent" exactly when
\* amount <= 0 (an amount of 0 is rendered as sent), and the amount shown is
\* the absolute value.
C7_DirectionBySignOrZero ==
    fpc \in {"formatted", "sent"} =>
        /\ ~fout.raised
        /\ Received(fout.parts[1]) <=> ftx.amount > 0
        /\ Sent(fout.parts[1]) <=> ftx.amount <= 0
        /\ ShowsAbsolute(fout.parts[1], ftx.amount)

\* a record of amount 0 has been formatted, as sent
C7_Witness ==
    /\ fpc = "formatted"
    /\ ftx.amount = 0
    /\ Sent(fout.parts[1])

\* C8: for a createdAt that fromisoformat refuses, the formatter returns, its
\* timestamp line is the string as given, and the message reaches the sink.
C8_MalformedTimestamp ==
    (fpc # "input" /\ ~fromisoformat(ReplaceZ(ftx.createdAt)).ok) =>
        /\ ~fout.raised
        /\ ~fout.parts[3].rendered
        /\ fout.parts[3].text = ftx.createdAt
        /\ fpc # "aborted"
        /\ fpc = "sent" => posted = fout.parts

\* a record dated February 30 has been posted with that date as given
C8_Witness ==
    /\ fpc = "sent"
    /\ ftx.createdAt = IsoString(2024, 2, 30, 13, 5, "Z")
    /\ posted[3].text = ftx.createdAt

\* C9: the step in which the fetch for an account fails delivers nothing,
\* changes no seen-set and not the file, and goes on to the next account or,
\* after the last one, to save_state; and for every account whose fetch failed
\* in the run nothing is delivered and the seen-set is as loaded.
C9_FetchFailureSkipped ==
    [][ /\ \A a \in AccountNames :
               (a \in fetchFailed'[1] /\ a \notin fetchFailed[1]) =>
                   /\ pc[1] = "fetch" /\ Cur(1) = a
                   /\ seen_state'[1] = seen_state[1]
                   /\ <<sentRun', delivered', file'>> = <<sentRun, delivered, file>>
                   /\ IF acct[1] < Len(AcctOrder)
                      THEN pc'[1] = "fetch" /\ acct'[1] = acct[1] + 1
                      ELSE pc'[1] = "save"
        /\ \A a \in fetchFailed'[1] :
               /\ sentRun'[1][a] = {}
               /\ pc'[1] \in Running \cup {"done"} => seen_state'[1][a] = loaded'[1][a] ]_vars

\* a run in which the fetch for IN failed, IN's seen-set not being empty, has
\* delivered for OUT and has saved both
C9_Witness ==
    /\ pc[1] = "done"
    /\ "IN" \in fetchFailed[1]
    /\ loaded[1]["IN"] # {}
    /\ sentRun[1]["OUT"] # {}
    /\ file.valid
    /\ FileIds(file)["IN"] = loaded[1]["IN"]
    /\ FileIds(file)["OUT"] = sentRun[1]["OUT"]

\* C10: a save_state that completes leaves in the file exactly the mapping of
\* the invocation that saved, whatever the file held: the later of two saves
\* overwrites the earlier one.
C10_SaveOverwrites ==
    [][ \A p \in Procs :
            (pc[p] = "dump" /\ pc'[p] = "done" /\ file'.valid) =>
                FileIds(file') = seen_state[p] ]_vars

\* two invocations that both loaded the empty state have both delivered one
\* identifier for one account, and the file, saved by 1 and then by 2, lacks
\* an identifier that 1 recorded
C10_Witness ==
    /\ pc[1] = "done" /\ pc[2] = "done"
    /\ saved = <<1, 2>>
    /\ loaded[1] = NoSeen /\ loaded[2] = NoSeen
    /\ file.valid
    /\ \E a \in AccountNames : sentRun[1][a] \cap sentRun[2][a] # {}
    /\ \E a \in AccountNames : seen_state[1][a] \ FileIds(file)[a] # {}

====
